---------------------------- MODULE Spec2Model ----------------------------
(***************************************************************************)
(* Stale-resource sweepers: three Lambda handlers that enumerate EBS       *)
(* volumes (all regions / one region with an age gate) or S3 buckets,      *)
(* classify them as stale, optionally delete them and report through       *)
(* CloudWatch metrics, SNS and a CloudWatch dashboard.                     *)
(*                                                                         *)
(* One behaviour is one invocation of one handler.  The module-level flags *)
(* (DRY_RUN, NOTIFY_ONLY, ...) are deployment inputs and are drawn in Init.*)
(* Every boto3 call is an external call whose response (or exception) is   *)
(* drawn when the step that issues it is taken.                            *)
(***************************************************************************)
EXTENDS Integers, Sequences, FiniteSets, TLC

(* ------------------------------ bounds -------------------------------- *)
MaxRegions == 2
MaxVolumes == 2
MaxBuckets == 2
MaxObjects == 2
MaxThreshold == 2
TicksPerDay == 2

(* Timestamps are integers counted in ticks; a day is TicksPerDay ticks.   *)
MaxAgeTicks == MaxThreshold * TicksPerDay + 1

(* list_objects_v2(Bucket=..., MaxKeys=1)                                 *)
MaxKeys == 1

VARIABLES
    handler,                    \* which lambda_handler this invocation runs
    DRY_RUN, NOTIFY_ONLY,
    STALE_DAYS_THRESHOLD,
    EMPTY_BUCKETS_ONLY,
    CHECK_OBJECT_LAST_MODIFIED,
    pc, pos,                    \* position of the handler, loop position
    error,                      \* the exception that left the handler, if any
    result,                     \* the value the handler returned
    \* stale-ebs-volume-all-region.py
    regions,
    total_volumes_global, stale_volumes_global,
    stale_volume_ids_all, deleted_volumes,
    \* stale-ebs-volume-ap-south-1.py
    total_count, available_count, available_volumes,
    stale_volume_ids, deletion_results,
    \* stale-s3-bucket.py
    all_buckets,
    total_buckets, stale_buckets_global,
    stale_bucket_names_all, deleted_buckets,
    \* the outside world, as the calls of the run saw and changed it
    described,                  \* describe_volumes() calls and their responses
    object_listings,            \* list_objects_v2() calls and their responses
    api_calls,                  \* destructive calls issued, in order
    metric_data,                \* put_metric_data data points accepted
    sns_messages,               \* sns.publish messages accepted
    dashboards                  \* put_dashboard bodies accepted

configVars == <<handler, DRY_RUN, NOTIFY_ONLY, STALE_DAYS_THRESHOLD,
                EMPTY_BUCKETS_ONLY, CHECK_OBJECT_LAST_MODIFIED>>

regionVars == <<regions, total_volumes_global, stale_volumes_global,
                stale_volume_ids_all, deleted_volumes>>

singleVars == <<total_count, available_count, available_volumes,
                stale_volume_ids, deletion_results>>

bucketVars == <<all_buckets, total_buckets, stale_buckets_global,
                stale_bucket_names_all, deleted_buckets>>

sinkVars == <<metric_data, sns_messages, dashboards>>

vars == <<configVars, pc, pos, error, result, regionVars, singleVars,
          bucketVars, described, object_listings, api_calls, sinkVars>>

(* ----------------------------- helpers -------------------------------- *)
VolumeStates == {"available", "in-use"}

REGION == 0   \* the handler's own region; all other regions are 1..n

RECURSIVE SumSeq(_)
SumSeq(s) == IF s = <<>> THEN 0 ELSE Head(s) + SumSeq(Tail(s))

Range(s) == {s[i] : i \in 1..Len(s)}

IsAvailable(vol) == vol.State = "available"

FilterAvailable_NoFilter(volumes) == volumes

(* Filters=[{'Name': 'status', 'Values': ['available']}]                  *)
FilterAvailable(volumes) == SelectSeq(volumes, IsAvailable)

(* 'NOTIFY ONLY' if NOTIFY_ONLY else ('DRY RUN' if DRY_RUN else ...)       *)
ModeLabel ==
    IF NOTIFY_ONLY THEN "NOTIFY ONLY"
    ELSE IF DRY_RUN THEN "DRY RUN" ELSE "ACTIVE DELETION"

NoResult == [statusCode |-> 0, Total |-> 0, Stale |-> 0]

(* What describe_volumes() can return for a region: up to MaxVolumes       *)
(* volumes.  The all-region handler reads VolumeId only; the single-region *)
(* handler also reads CreateTime.                                          *)
VolumeLists(region, times) ==
    UNION {
        { [i \in 1..n |-> [VolumeId |-> <<region, i>>,
                           State |-> st[i], CreateTime |-> ct[i]]] :
              st \in [1..n -> VolumeStates], ct \in [1..n -> times] }
        : n \in 0..MaxVolumes }

VolumeIds(volumes) == [i \in 1..Len(volumes) |-> volumes[i].VolumeId]

(* ------------------ volume deletion (both EBS handlers) --------------- *)
(* One iteration of "for volume_id in stale_ids": the try/except body.     *)
(* failing is the set of volume ids whose delete_volume call raises.       *)
DeleteVolume_IgnoresDryRun(volume_id, failing) ==
    IF volume_id \in failing
    THEN [message |-> [id |-> volume_id, status |-> "ERROR"],
          calls |-> <<[op |-> "delete_volume", target |-> volume_id,
                       ok |-> FALSE]>>]
    ELSE [message |-> [id |-> volume_id, status |-> "DELETED"],
          calls |-> <<[op |-> "delete_volume", target |-> volume_id,
                       ok |-> TRUE]>>]

DeleteVolume(volume_id, failing) ==
    IF ~DRY_RUN
    THEN IF volume_id \in failing
         THEN [message |-> [id |-> volume_id, status |-> "ERROR"],
               calls |-> <<[op |-> "delete_volume", target |-> volume_id,
                            ok |-> FALSE]>>]
         ELSE [message |-> [id |-> volume_id, status |-> "DELETED"],
               calls |-> <<[op |-> "delete_volume", target |-> volume_id,
                            ok |-> TRUE]>>]
    ELSE [message |-> [id |-> volume_id, status |-> "WOULD BE DELETED"],
          calls |-> <<>>]

RECURSIVE DeleteLoop_StopsAtError(_, _)
DeleteLoop_StopsAtError(ids, failing) ==
    IF ids = <<>>
    THEN [messages |-> <<>>, calls |-> <<>>]
    ELSE LET one == DeleteVolume(Head(ids), failing)
             rest == IF one.message.status = "ERROR"
                     THEN [messages |-> <<>>, calls |-> <<>>]
                     ELSE DeleteLoop_StopsAtError(Tail(ids), failing)
         IN  [messages |-> <<one.message>> \o rest.messages,
              calls |-> one.calls \o rest.calls]

RECURSIVE DeleteLoop(_, _)
DeleteLoop(ids, failing) ==
    IF ids = <<>>
    THEN [messages |-> <<>>, calls |-> <<>>]
    ELSE LET one == DeleteVolume(Head(ids), failing)
             rest == DeleteLoop(Tail(ids), failing)
         IN  [messages |-> <<one.message>> \o rest.messages,
              calls |-> one.calls \o rest.calls]

(* "if not NOTIFY_ONLY and stale_ids:" and the loop under it               *)
DeleteStaleVolumes_IgnoresNotifyOnly(ids, failing) ==
    IF ids # <<>>
    THEN DeleteLoop(ids, failing)
    ELSE [messages |-> <<>>, calls |-> <<>>]

DeleteStaleVolumes(ids, failing) ==
    IF ~NOTIFY_ONLY /\ ids # <<>>
    THEN DeleteLoop(ids, failing)
    ELSE [messages |-> <<>>, calls |-> <<>>]

(* ------------------------------ Init ---------------------------------- *)
InitCommon ==
    /\ DRY_RUN \in BOOLEAN
    /\ NOTIFY_ONLY \in BOOLEAN
    /\ pc = "start"
    /\ pos = 1
    /\ error = "none"
    /\ result = NoResult
    /\ regions = <<>>
    /\ total_volumes_global = 0
    /\ stale_volumes_global = 0
    /\ stale_volume_ids_all = <<>>
    /\ deleted_volumes = <<>>
    /\ total_count = 0
    /\ available_count = 0
    /\ available_volumes = <<>>
    /\ stale_volume_ids = <<>>
    /\ deletion_results = <<>>
    /\ all_buckets = <<>>
    /\ total_buckets = 0
    /\ stale_buckets_global = 0
    /\ stale_bucket_names_all = <<>>
    /\ deleted_buckets = <<>>
    /\ described = <<>>
    /\ object_listings = <<>>
    /\ api_calls = <<>>
    /\ metric_data = <<>>
    /\ sns_messages = <<>>
    /\ dashboards = <<>>

Init ==
    /\ InitCommon
    /\ \/ /\ handler = "all_region"
          /\ STALE_DAYS_THRESHOLD = 0
          /\ EMPTY_BUCKETS_ONLY = TRUE
          /\ CHECK_OBJECT_LAST_MODIFIED = TRUE
       \/ /\ handler = "ap_south_1"
          /\ STALE_DAYS_THRESHOLD \in 0..MaxThreshold
          /\ EMPTY_BUCKETS_ONLY = TRUE
          /\ CHECK_OBJECT_LAST_MODIFIED = TRUE
       \/ /\ handler = "s3_bucket"
          /\ STALE_DAYS_THRESHOLD \in 0..MaxThreshold
          /\ EMPTY_BUCKETS_ONLY \in BOOLEAN
          /\ CHECK_OBJECT_LAST_MODIFIED \in BOOLEAN

(* ============== stale-ebs-volume-all-region.py ======================== *)
(* regions = [r['RegionName'] for r in ec2_global.describe_regions()...]   *)
DescribeRegions ==
    /\ handler = "all_region" /\ pc = "start"
    /\ \/ \E n \in 0..MaxRegions :
            /\ regions' = [i \in 1..n |-> i]
            /\ pc' = "loop"
            /\ error' = error
       \/ /\ regions' = regions
          /\ pc' = "raised"
          /\ error' = "describe_regions"
    /\ UNCHANGED <<configVars, pos, result, total_volumes_global,
                   stale_volumes_global, stale_volume_ids_all,
                   deleted_volumes, singleVars, bucketVars, described,
                   object_listings, api_calls, sinkVars>>

(* One iteration of "for region in regions" in which both describe_volumes *)
(* calls return.  put_metric_data either returns or raises.                *)
RegionStep ==
    /\ handler = "all_region" /\ pc = "loop" /\ pos <= Len(regions)
    /\ LET region == regions[pos] IN
       \E volumes \in VolumeLists(region, {0}) :
       LET total == Len(volumes)
           avail == FilterAvailable(volumes)
           available == Len(avail)
           stale_ids == VolumeIds(avail)
       IN
       \E failing \in SUBSET Range(stale_ids), metrics_ok \in BOOLEAN :
       LET deletion == DeleteStaleVolumes(stale_ids, failing) IN
         /\ described' = Append(described,
                [region |-> region, ok |-> TRUE, Volumes |-> volumes])
         /\ api_calls' = api_calls \o deletion.calls
         /\ deleted_volumes' = deleted_volumes \o deletion.messages
         /\ stale_volume_ids_all' = stale_volume_ids_all \o stale_ids
         /\ total_volumes_global' = total_volumes_global + total
         /\ stale_volumes_global' = stale_volumes_global + available
         /\ IF metrics_ok
            THEN /\ metric_data' = metric_data \o
                       << [MetricName |-> "TotalVolumeCount",
                           Region |-> region, Value |-> total],
                          [MetricName |-> "AvailableVolumeCount",
                           Region |-> region, Value |-> available] >>
                 /\ pos' = pos + 1
                 /\ UNCHANGED <<pc, error>>
            ELSE /\ pc' = "raised"
                 /\ error' = "put_metric_data"
                 /\ UNCHANGED <<metric_data, pos>>
    /\ UNCHANGED <<configVars, result, regions, singleVars, bucketVars,
                   object_listings, sns_messages, dashboards>>

(* An iteration in which describe_volumes raises: nothing in the loop      *)
(* catches it, so the exception leaves lambda_handler.                     *)
RegionListingFails ==
    /\ handler = "all_region" /\ pc = "loop" /\ pos <= Len(regions)
    /\ described' = Append(described,
           [region |-> regions[pos], ok |-> FALSE, Volumes |-> <<>>])
    /\ pc' = "raised"
    /\ error' = "describe_volumes"
    /\ UNCHANGED <<configVars, pos, result, regionVars, singleVars,
                   bucketVars, object_listings, api_calls, sinkVars>>

(* Lines 118-177: the text widgets, the email, the dashboard, the return.  *)
RegionReport ==
    /\ handler = "all_region" /\ pc = "loop" /\ pos > Len(regions)
    /\ \E failed \in {"none", "sns.publish", "put_dashboard"} :
         /\ sns_messages' =
              IF failed = "sns.publish" THEN sns_messages
              ELSE Append(sns_messages,
                     [Mode |-> ModeLabel,
                      Total |-> total_volumes_global,
                      Stale |-> stale_volumes_global,
                      StaleList |-> stale_volume_ids_all,
                      DeletionResults |-> deleted_volumes])
         /\ dashboards' =
              IF failed # "none" THEN dashboards
              ELSE Append(dashboards,
                     [DashboardName |-> "Global-EBSVolumeDashboard",
                      StaleList |-> stale_volume_ids_all,
                      DeletionResults |-> deleted_volumes,
                      Mode |-> ModeLabel,
                      StaleMetric |-> "AvailableVolumeCount"])
         /\ IF failed = "none"
            THEN /\ pc' = "done"
                 /\ error' = error
                 /\ result' = [statusCode |-> 200,
                               Total |-> total_volumes_global,
                               Stale |-> stale_volumes_global]
            ELSE /\ pc' = "raised"
                 /\ error' = failed
                 /\ result' = result
    /\ UNCHANGED <<configVars, pos, regionVars, singleVars, bucketVars,
                   described, object_listings, api_calls, metric_data>>

AllRegionNext ==
    DescribeRegions \/ RegionStep \/ RegionListingFails \/ RegionReport

(* ============== stale-ebs-volume-ap-south-1.py ======================== *)
(* current_time = datetime.now(timezone.utc), in ticks                     *)
current_time == MaxAgeTicks

(* threshold_time = current_time - timedelta(days=STALE_DAYS_THRESHOLD)    *)
threshold_time == current_time - STALE_DAYS_THRESHOLD * TicksPerDay

(* "if vol['CreateTime'] < threshold_time"                                 *)
CreatedBeforeThreshold_Inclusive(vol) == vol.CreateTime <= threshold_time

CreatedBeforeThreshold(vol) == vol.CreateTime < threshold_time

(* Lines 19-38: both describe_volumes calls return; the stale list is the  *)
(* available volumes created before threshold_time, in listing order.      *)
SingleEnumerate ==
    /\ handler = "ap_south_1" /\ pc = "start"
    /\ \E volumes \in VolumeLists(REGION, 0..current_time) :
         /\ described' = Append(described,
                [region |-> REGION, ok |-> TRUE, Volumes |-> volumes])
         /\ total_count' = Len(volumes)
         /\ available_volumes' = FilterAvailable(volumes)
         /\ available_count' = Len(FilterAvailable(volumes))
         /\ stale_volume_ids' =
                VolumeIds(SelectSeq(FilterAvailable(volumes),
                                    CreatedBeforeThreshold))
    /\ pc' = "delete"
    /\ UNCHANGED <<configVars, pos, error, result, regionVars,
                   deletion_results, bucketVars, object_listings,
                   api_calls, sinkVars>>

(* describe_volumes raises: the exception leaves lambda_handler.           *)
SingleListingFails ==
    /\ handler = "ap_south_1" /\ pc = "start"
    /\ described' = Append(described,
           [region |-> REGION, ok |-> FALSE, Volumes |-> <<>>])
    /\ pc' = "raised"
    /\ error' = "describe_volumes"
    /\ UNCHANGED <<configVars, pos, result, regionVars, singleVars,
                   bucketVars, object_listings, api_calls, sinkVars>>

(* Lines 40-56: Step 3, delete stale volumes based on flags.               *)
SingleDelete ==
    /\ handler = "ap_south_1" /\ pc = "delete"
    /\ \E failing \in SUBSET Range(stale_volume_ids) :
       LET deletion == DeleteStaleVolumes(stale_volume_ids, failing) IN
         /\ deletion_results' = deletion.messages
         /\ api_calls' = api_calls \o deletion.calls
    /\ pc' = "report"
    /\ UNCHANGED <<configVars, pos, error, result, regionVars, total_count,
                   available_count, available_volumes, stale_volume_ids,
                   bucketVars, described, object_listings, sinkVars>>

(* Lines 58-162: Steps 4-7 and the return.  The first call that raises     *)
(* ends the handler; the calls before it have taken effect.                *)
SingleReport ==
    /\ handler = "ap_south_1" /\ pc = "report"
    /\ \E failed \in {"none", "put_metric_data", "sns.publish",
                      "put_dashboard"} :
         /\ metric_data' =
              IF failed = "put_metric_data" THEN metric_data
              ELSE metric_data \o
                     << [MetricName |-> "TotalVolumeCount",
                         Region |-> REGION, Value |-> total_count],
                        [MetricName |-> "AvailableVolumeCount",
                         Region |-> REGION, Value |-> available_count] >>
         /\ sns_messages' =
              IF failed \in {"put_metric_data", "sns.publish"}
              THEN sns_messages
              ELSE Append(sns_messages,
                     [Mode |-> ModeLabel,
                      Total |-> total_count,
                      Available |-> available_count,
                      Stale |-> Len(stale_volume_ids),
                      StaleList |-> stale_volume_ids,
                      DeletionResults |-> deletion_results])
         /\ dashboards' =
              IF failed # "none" THEN dashboards
              ELSE Append(dashboards,
                     [DashboardName |-> "EBSVolumeDashboard",
                      StaleList |-> stale_volume_ids,
                      DeletionResults |-> deletion_results,
                      Mode |-> ModeLabel,
                      StaleMetric |-> "AvailableVolumeCount"])
         /\ IF failed = "none"
            THEN /\ pc' = "done"
                 /\ error' = error
                 /\ result' = [statusCode |-> 200,
                               Total |-> total_count,
                               Available |-> available_count]
            ELSE /\ pc' = "raised"
                 /\ error' = failed
                 /\ result' = result
    /\ UNCHANGED <<configVars, pos, regionVars, singleVars, bucketVars,
                   described, object_listings, api_calls>>

SingleRegionNext ==
    SingleEnumerate \/ SingleListingFails \/ SingleDelete \/ SingleReport

(* ===================== stale-s3-bucket.py ============================= *)
(* What a bucket can hold: the LastModified of each of its objects.        *)
ObjectLists ==
    UNION { [1..n -> 0..current_time] : n \in 0..MaxObjects }

Min(a, b) == IF a < b THEN a ELSE b

(* s3_client.list_objects_v2(Bucket=bucket_name, MaxKeys=1): the first     *)
(* page holds at most MaxKeys objects.  A page without objects comes       *)
(* without the 'Contents' key, or (with_key) with an empty list.           *)
ListObjectsV2(objects, with_key) ==
    IF objects = <<>>
    THEN [ok |-> TRUE, hasContents |-> with_key, Contents |-> <<>>]
    ELSE [ok |-> TRUE, hasContents |-> TRUE,
          Contents |-> [i \in 1..Min(MaxKeys, Len(objects)) |->
                           [LastModified |-> objects[i]]]]

ListObjectsV2Raises == [ok |-> FALSE, hasContents |-> FALSE, Contents |-> <<>>]

(* days_old = (datetime.now() - last_modified).days                        *)
days_old(obj) == (current_time - obj.LastModified) \div TicksPerDay

is_bucket_stale_IgnoresEmptyOnly(response) ==
    IF ~response.ok THEN FALSE
    ELSE IF CHECK_OBJECT_LAST_MODIFIED /\ response.hasContents
    THEN \A i \in 1..Len(response.Contents) :
             ~(days_old(response.Contents[i]) < STALE_DAYS_THRESHOLD)
    ELSE FALSE

is_bucket_stale_FailOpen(response) ==
    IF ~response.ok THEN TRUE
    ELSE IF EMPTY_BUCKETS_ONLY
    THEN ~response.hasContents \/ Len(response.Contents) = 0
    ELSE IF CHECK_OBJECT_LAST_MODIFIED /\ response.hasContents
    THEN \A i \in 1..Len(response.Contents) :
             ~(days_old(response.Contents[i]) < STALE_DAYS_THRESHOLD)
    ELSE FALSE

(* is_bucket_stale(s3_client, bucket_name), given what list_objects_v2     *)
(* answered; an exception in the try block gives False.                    *)
is_bucket_stale(response) ==
    IF ~response.ok THEN FALSE
    ELSE IF EMPTY_BUCKETS_ONLY
    THEN ~response.hasContents \/ Len(response.Contents) = 0
    ELSE IF CHECK_OBJECT_LAST_MODIFIED /\ response.hasContents
    THEN \A i \in 1..Len(response.Contents) :
             ~(days_old(response.Contents[i]) < STALE_DAYS_THRESHOLD)
    ELSE FALSE

(* The call of lines 81-85 that raises, if any.                            *)
FailPoints == {"none", "objects", "object_versions", "delete_bucket"}

BucketCall(op, bucket_name, ok) ==
    [op |-> op, target |-> bucket_name, ok |-> ok]

EmptyAndDelete_IgnoresFailure(bucket_name, failpoint) ==
    << BucketCall("objects.delete", bucket_name, failpoint # "objects"),
       BucketCall("object_versions.delete", bucket_name,
                  failpoint # "object_versions"),
       BucketCall("delete_bucket", bucket_name,
                  failpoint # "delete_bucket") >>

(* Lines 75-85 up to the first call that raises (failpoint): the objects   *)
(* pass, the object-versions pass, then delete_bucket.                     *)
EmptyAndDelete(bucket_name, failpoint) ==
    IF failpoint = "objects"
    THEN << BucketCall("objects.delete", bucket_name, FALSE) >>
    ELSE IF failpoint = "object_versions"
    THEN << BucketCall("objects.delete", bucket_name, TRUE),
            BucketCall("object_versions.delete", bucket_name, FALSE) >>
    ELSE << BucketCall("objects.delete", bucket_name, TRUE),
            BucketCall("object_versions.delete", bucket_name, TRUE),
            BucketCall("delete_bucket", bucket_name, failpoint = "none") >>

(* Lines 71-94: "if not NOTIFY_ONLY:" and the try/except under it.         *)
DeleteStaleBucket(bucket_name, failpoint) ==
    IF NOTIFY_ONLY
    THEN [messages |-> <<>>, calls |-> <<>>]
    ELSE IF ~DRY_RUN
    THEN [messages |-> << [id |-> bucket_name,
                           status |-> IF failpoint = "none"
                                      THEN "DELETED" ELSE "ERROR"] >>,
          calls |-> EmptyAndDelete(bucket_name, failpoint)]
    ELSE [messages |-> << [id |-> bucket_name,
                           status |-> "WOULD BE DELETED"] >>,
          calls |-> <<>>]

ListBuckets_Swallowed ==
    /\ handler = "s3_bucket" /\ pc = "start"
    /\ \/ \E n \in 0..MaxBuckets :
            /\ all_buckets' = [i \in 1..n |-> [Name |-> i, CreationDate |-> 0]]
            /\ total_buckets' = n
            /\ pc' = "loop"
            /\ UNCHANGED <<error, result>>
       \/ /\ UNCHANGED <<all_buckets, total_buckets, result>>
          /\ pc' = "loop"
          /\ error' = "list_buckets"
    /\ UNCHANGED <<configVars, pos, regionVars, singleVars,
                   stale_buckets_global, stale_bucket_names_all,
                   deleted_buckets, described, object_listings, api_calls,
                   sinkVars>>

(* response = s3.list_buckets(); all_buckets = response['Buckets'];        *)
(* an exception is caught by the outer except, which returns 500.          *)
ListBuckets ==
    /\ handler = "s3_bucket" /\ pc = "start"
    /\ \/ \E n \in 0..MaxBuckets :
            /\ all_buckets' = [i \in 1..n |-> [Name |-> i, CreationDate |-> 0]]
            /\ total_buckets' = n
            /\ pc' = "loop"
            /\ UNCHANGED <<error, result>>
       \/ /\ UNCHANGED <<all_buckets, total_buckets>>
          /\ pc' = "done"
          /\ error' = "list_buckets"
          /\ result' = [statusCode |-> 500, Total |-> 0, Stale |-> 0]
    /\ UNCHANGED <<configVars, pos, regionVars, singleVars,
                   stale_buckets_global, stale_bucket_names_all,
                   deleted_buckets, described, object_listings, api_calls,
                   sinkVars>>

(* One iteration of "for bucket in all_buckets".                           *)
BucketStep ==
    /\ handler = "s3_bucket" /\ pc = "loop" /\ pos <= Len(all_buckets)
    /\ LET bucket_name == all_buckets[pos].Name IN
       \E response \in
            {ListObjectsV2Raises} \cup
            {ListObjectsV2(objects, with_key) :
                 objects \in ObjectLists, with_key \in BOOLEAN},
          failpoint \in FailPoints :
       LET deletion == DeleteStaleBucket(bucket_name, failpoint) IN
         /\ object_listings' = Append(object_listings,
                [Bucket |-> bucket_name, response |-> response])
         /\ IF is_bucket_stale(response)
            THEN /\ stale_buckets_global' = stale_buckets_global + 1
                 /\ stale_bucket_names_all' =
                        Append(stale_bucket_names_all, bucket_name)
                 /\ deleted_buckets' = deleted_buckets \o deletion.messages
                 /\ api_calls' = api_calls \o deletion.calls
            ELSE UNCHANGED <<stale_buckets_global, stale_bucket_names_all,
                             deleted_buckets, api_calls>>
    /\ pos' = pos + 1
    /\ UNCHANGED <<configVars, pc, error, result, regionVars, singleVars,
                   all_buckets, total_buckets, described, sinkVars>>

(* Lines 102-209: metrics, widgets, email, dashboard and the return.       *)
BucketReport ==
    /\ handler = "s3_bucket" /\ pc = "loop" /\ pos > Len(all_buckets)
    /\ \E failed \in {"none", "put_metric_data", "sns.publish",
                      "put_dashboard"} :
         /\ metric_data' =
              IF failed = "put_metric_data" THEN metric_data
              ELSE metric_data \o
                     << [MetricName |-> "TotalBucketCount",
                         Region |-> REGION, Value |-> total_buckets],
                        [MetricName |-> "StaleBucketCount",
                         Region |-> REGION, Value |-> stale_buckets_global] >>
         /\ sns_messages' =
              IF failed \in {"put_metric_data", "sns.publish"}
              THEN sns_messages
              ELSE Append(sns_messages,
                     [Mode |-> ModeLabel,
                      Total |-> total_buckets,
                      Stale |-> stale_buckets_global,
                      StaleList |-> stale_bucket_names_all,
                      DeletionResults |-> deleted_buckets])
         /\ dashboards' =
              IF failed # "none" THEN dashboards
              ELSE Append(dashboards,
                     [DashboardName |-> "Global-S3BucketDashboard",
                      StaleList |-> stale_bucket_names_all,
                      DeletionResults |-> deleted_buckets,
                      Mode |-> ModeLabel,
                      StaleMetric |-> "StaleBucketCount"])
         /\ IF failed = "none"
            THEN /\ pc' = "done"
                 /\ error' = error
                 /\ result' = [statusCode |-> 200,
                               Total |-> total_buckets,
                               Stale |-> stale_buckets_global]
            ELSE /\ pc' = "raised"
                 /\ error' = failed
                 /\ result' = result
    /\ UNCHANGED <<configVars, pos, regionVars, singleVars, bucketVars,
                   described, object_listings, api_calls>>

BucketNext == ListBuckets \/ BucketStep \/ BucketReport

Next == AllRegionNext \/ SingleRegionNext \/ BucketNext

Spec == Init /\ [][Next]_vars

(* ======================= properties =================================== *)
(* The list of deletion outcomes and the list of stale identifiers of the  *)
(* handler that runs.                                                      *)
Outcomes ==
    CASE handler = "all_region" -> deleted_volumes
      [] handler = "ap_south_1" -> deletion_results
      [] handler = "s3_bucket"  -> deleted_buckets

Flagged ==
    CASE handler = "all_region" -> stale_volume_ids_all
      [] handler = "ap_south_1" -> stale_volume_ids
      [] handler = "s3_bucket"  -> stale_bucket_names_all

(* The deletion step has run for every resource in Flagged.                *)
DeletionStepDone == handler = "ap_south_1" => pc \notin {"start", "delete"}

OutcomesOf(r) == {j \in 1..Len(Outcomes) : Outcomes[j].id = r}

CallsOn(r) == {k \in 1..Len(api_calls) : api_calls[k].target = r}

C2_DryRunWouldDelete ==
    (DRY_RUN /\ ~NOTIFY_ONLY /\ DeletionStepDone) =>
        /\ api_calls = <<>>
        /\ \A r \in Range(Flagged) :
              /\ Cardinality(OutcomesOf(r)) = 1
              /\ \A j \in OutcomesOf(r) :
                    Outcomes[j].status = "WOULD BE DELETED"

C2_Witness ==
    /\ DRY_RUN /\ ~NOTIFY_ONLY /\ pc = "done"
    /\ Len(Flagged) >= 2
    /\ Len(Outcomes) = Len(Flagged)

(* C3: in active deletion every flagged resource gets a delete attempt,    *)
(* exactly one outcome, ERROR if a call for it raised and DELETED if none  *)
(* did, and a raising delete call never ends the run: the only exceptions  *)
(* that leave the handler come from listing and reporting calls.           *)
C3_PerItemIsolation ==
    (~DRY_RUN /\ ~NOTIFY_ONLY /\ DeletionStepDone) =>
        /\ \A r \in Range(Flagged) :
              /\ CallsOn(r) # {}
              /\ Cardinality(OutcomesOf(r)) = 1
              /\ \A j \in OutcomesOf(r) :
                    Outcomes[j].status =
                       IF \E k \in CallsOn(r) : ~api_calls[k].ok
                       THEN "ERROR" ELSE "DELETED"
        /\ pc = "raised" =>
              error \in {"describe_regions", "describe_volumes",
                         "put_metric_data", "sns.publish", "put_dashboard"}
        /\ (handler = "ap_south_1" /\ api_calls # <<>>) =>
              pc \in {"report", "done", "raised"}

C3_Witness ==
    /\ ~DRY_RUN /\ ~NOTIFY_ONLY /\ pc = "done"
    /\ \E x, y \in Range(Flagged) :
          /\ \E j \in OutcomesOf(x) : Outcomes[j].status = "ERROR"
          /\ \E j \in OutcomesOf(y) : Outcomes[j].status = "DELETED"
          /\ \E j \in OutcomesOf(x), k \in OutcomesOf(y) : j < k
    /\ Len(sns_messages) = 1

(* ---------------------------------------------------------------------- *)
EnumeratedTotal ==
    IF handler = "s3_bucket" THEN Len(all_buckets)
    ELSE SumSeq([i \in 1..Len(described) |-> Len(described[i].Volumes)])

(* The value of the data points of metric name, summed over the regions.   *)
MetricTotal(name) ==
    SumSeq([i \in 1..Len(metric_data) |->
               IF metric_data[i].MetricName = name
               THEN metric_data[i].Value ELSE 0])

TotalMetricName ==
    IF handler = "s3_bucket" THEN "TotalBucketCount" ELSE "TotalVolumeCount"

(* C4 (as stated): in multi-region mode a region whose volume listing      *)
(* fails does not end the run: every region of the list is still visited   *)
(* and the report is published with the totals of the regions that were    *)
(* listed, the failed region adding zero.                                  *)
C4_RegionFailureIsolated ==
    (handler = "all_region" /\ \E i \in 1..Len(described) : ~described[i].ok)
    =>  /\ ~(pc = "raised" /\ error = "describe_volumes")
        /\ pc = "done" =>
              /\ Len(described) = Len(regions)
              /\ Len(sns_messages) = 1
              /\ sns_messages[1].Total = EnumeratedTotal

(* C5 (as stated): in a completed run the total and the stale count in the *)
(* metric data points, the notification and the returned body equal the    *)
(* number of resources enumerated and the number classified stale (the     *)
(* length of the stale list); the stale data point is the metric that the  *)
(* dashboard shows as the stale count.                                     *)
C5_ReportedCountsMatch ==
    (pc = "done" /\ result.statusCode = 200) =>
        /\ MetricTotal(TotalMetricName) = EnumeratedTotal
        /\ sns_messages[1].Total = EnumeratedTotal
        /\ result.Total = EnumeratedTotal
        /\ MetricTotal(dashboards[1].StaleMetric) = Len(Flagged)
        /\ sns_messages[1].Stale = Len(Flagged)
        /\ handler # "ap_south_1" => result.Stale = Len(Flagged)

(* Age of a volume in ticks, and the threshold in ticks.                   *)
AgeOf(vol) == current_time - vol.CreateTime

ThresholdTicks == STALE_DAYS_THRESHOLD * TicksPerDay

SingleClassified == handler = "ap_south_1" /\ pc \notin {"start"} /\ error # "describe_volumes"

(* C6 (as stated): in the age-gated handler a volume is in the stale list  *)
(* iff it is available and its age is at least the threshold (inclusive).  *)
C6_StaleIffAgeAtLeastThreshold ==
    SingleClassified =>
        \A i \in 1..Len(described[1].Volumes) :
           LET vol == described[1].Volumes[i] IN
           (vol.VolumeId \in Range(stale_volume_ids)) <=>
               (vol.State = "available" /\ AgeOf(vol) >= ThresholdTicks)

(* C6 (amended): in the age-gated handler a volume is in the stale list    *)
(* iff it is available and its age is strictly greater than the threshold; *)
(* a volume created exactly at the threshold boundary is not stale.        *)
C6_StaleIffAgeAboveThreshold ==
    SingleClassified =>
        \A i \in 1..Len(described[1].Volumes) :
           LET vol == described[1].Volumes[i] IN
           (vol.VolumeId \in Range(stale_volume_ids)) <=>
               (vol.State = "available" /\ AgeOf(vol) > ThresholdTicks)

C6_Witness ==
    /\ SingleClassified /\ STALE_DAYS_THRESHOLD > 0
    /\ \E i, j \in 1..Len(described[1].Volumes) :
         LET v == described[1].Volumes[i]
             w == described[1].Volumes[j] IN
         /\ v.State = "available" /\ AgeOf(v) = ThresholdTicks
         /\ v.VolumeId \notin Range(stale_volume_ids)
         /\ w.State = "available" /\ AgeOf(w) = ThresholdTicks + 1
         /\ w.VolumeId \in Range(stale_volume_ids)

(* C7: with empty_buckets_only = true a bucket whose first page was        *)
(* obtained is classified stale iff that page holds no object, whatever    *)
(* the age of the object on it, the threshold and check_last_modified.     *)
C7_EmptyOnlyStaleIffFirstPageEmpty ==
    (handler = "s3_bucket" /\ EMPTY_BUCKETS_ONLY) =>
        \A i \in 1..Len(object_listings) :
           LET l == object_listings[i] IN
           l.response.ok =>
              ((l.Bucket \in Range(stale_bucket_names_all)) <=>
                   (Len(l.response.Contents) = 0))

C7_Witness ==
    /\ handler = "s3_bucket" /\ EMPTY_BUCKETS_ONLY
    /\ CHECK_OBJECT_LAST_MODIFIED /\ STALE_DAYS_THRESHOLD > 0
    /\ \E i, j \in 1..Len(object_listings) :
         LET a == object_listings[i]
             b == object_listings[j] IN
         /\ a.response.ok /\ Len(a.response.Contents) = 0
         /\ a.Bucket \in Range(stale_bucket_names_all)
         /\ b.response.ok /\ Len(b.response.Contents) > 0
         /\ days_old(b.response.Contents[1]) >= STALE_DAYS_THRESHOLD
         /\ b.Bucket \notin Range(stale_bucket_names_all)

(* C8: when list_buckets raises, the bucket handler returns status 500 and *)
(* the run puts no metric data, publishes no notification, writes no       *)
(* dashboard and issues no delete call.                                    *)
C8_ListBucketsFailureAborts ==
    error = "list_buckets" =>
        /\ pc = "done" /\ result.statusCode = 500
        /\ metric_data = <<>> /\ sns_messages = <<>> /\ dashboards = <<>>
        /\ api_calls = <<>> /\ object_listings = <<>>

C8_Witness ==
    /\ handler = "s3_bucket" /\ error = "list_buckets"
    /\ pc = "done" /\ result.statusCode = 500

(* C9: a bucket whose list_objects_v2 call raised is not stale: it is not  *)
(* counted or listed and no delete call targets it; the failure is not     *)
(* fatal: the loop goes on over every remaining bucket, and a run whose    *)
(* reporting calls succeed returns 200 with the report published.          *)
C9_ObjectListingFailureIsNotStale ==
    handler = "s3_bucket" =>
        /\ \A i \in 1..Len(object_listings) :
              ~object_listings[i].response.ok =>
                 /\ object_listings[i].Bucket \notin Range(Flagged)
                 /\ CallsOn(object_listings[i].Bucket) = {}
                 /\ OutcomesOf(object_listings[i].Bucket) = {}
        /\ stale_buckets_global = Len(stale_bucket_names_all)
        /\ pc = "loop" => Len(object_listings) = pos - 1
        /\ (pc \in {"done", "raised"} /\ error # "list_buckets") =>
              /\ Len(object_listings) = Len(all_buckets)
              /\ error \in {"none", "put_metric_data", "sns.publish",
                            "put_dashboard"}
        /\ (pc = "done" /\ error = "none") =>
              /\ result.statusCode = 200
              /\ Len(sns_messages) = 1 /\ Len(dashboards) = 1
              /\ sns_messages[1].Stale = Len(Flagged)

C9_Witness ==
    /\ handler = "s3_bucket" /\ pc = "done" /\ result.statusCode = 200
    /\ Len(object_listings) >= 2
    /\ ~object_listings[1].response.ok
    /\ object_listings[2].response.ok
    /\ object_listings[2].Bucket \in Range(Flagged)
    /\ ~NOTIFY_ONLY /\ ~DRY_RUN

EmptyingOps == {"objects.delete", "object_versions.delete"}

(* C10: delete_bucket is called on a bucket only right after the objects   *)
(* pass and then the object-versions pass on that bucket both returned; a  *)
(* bucket with a raising pass gets no delete_bucket call and the outcome   *)
(* ERROR; DELETED is reported only for a delete_bucket call that returned. *)
C10_DeleteBucketOnlyAfterEmptying ==
    handler = "s3_bucket" =>
        /\ \A k \in 1..Len(api_calls) :
              api_calls[k].op = "delete_bucket" =>
                 /\ k >= 3
                 /\ api_calls[k-2] = BucketCall("objects.delete",
                                                api_calls[k].target, TRUE)
                 /\ api_calls[k-1] = BucketCall("object_versions.delete",
                                                api_calls[k].target, TRUE)
        /\ \A k \in 1..Len(api_calls) :
              (api_calls[k].op \in EmptyingOps /\ ~api_calls[k].ok) =>
                 /\ \A m \in CallsOn(api_calls[k].target) :
                       api_calls[m].op # "delete_bucket"
                 /\ \A j \in OutcomesOf(api_calls[k].target) :
                       Outcomes[j].status = "ERROR"
                 /\ OutcomesOf(api_calls[k].target) # {}
        /\ \A j \in 1..Len(Outcomes) :
              Outcomes[j].status = "DELETED" =>
                 \E k \in CallsOn(Outcomes[j].id) :
                    api_calls[k].op = "delete_bucket" /\ api_calls[k].ok

C10_Witness ==
    /\ handler = "s3_bucket" /\ pc = "done"
    /\ \E j, m \in 1..Len(Outcomes) :
          /\ Outcomes[j].status = "ERROR"
          /\ \E k \in CallsOn(Outcomes[j].id) :
                api_calls[k].op = "object_versions.delete" /\ ~api_calls[k].ok
          /\ Outcomes[m].status = "DELETED"

(* ---------------------------------------------------------------------- *)
(* The volumes the describe_volumes calls of the run returned.             *)
VolumesSeen ==
    UNION {Range(described[i].Volumes) : i \in 1..Len(described)}

(* Whether the run's own listings make resource r stale: an available      *)
(* volume (past the threshold in the age-gated handler), or a bucket whose *)
(* list_objects_v2 answer makes is_bucket_stale true.                      *)
ClassifiedStale(r) ==
    CASE handler = "all_region" ->
            \E vol \in VolumesSeen :
               vol.VolumeId = r /\ vol.State = "available"
      [] handler = "ap_south_1" ->
            \E vol \in VolumesSeen :
               /\ vol.VolumeId = r /\ vol.State = "available"
               /\ AgeOf(vol) > ThresholdTicks
      [] handler = "s3_bucket" ->
            \E i \in 1..Len(object_listings) :
               /\ object_listings[i].Bucket = r
               /\ is_bucket_stale(object_listings[i].response)

DestructiveOps ==
    {"delete_volume", "objects.delete", "object_versions.delete",
     "delete_bucket"}

(* C11: every destructive call targets a resource that the run classified  *)
(* stale and lists in its stale identifiers, is issued in active deletion  *)
(* only, and no resource gets the same destructive call twice in a run.    *)
C11_DeleteOnlyStaleAtMostOnce ==
    \A k \in 1..Len(api_calls) :
       /\ api_calls[k].op \in DestructiveOps
       /\ ClassifiedStale(api_calls[k].target)
       /\ api_calls[k].target \in Range(Flagged)
       /\ ~NOTIFY_ONLY /\ ~DRY_RUN
       /\ \A m \in 1..Len(api_calls) :
             (api_calls[m].target = api_calls[k].target
                 /\ api_calls[m].op = api_calls[k].op) => m = k

(* A finished active-deletion run of a volume handler that deleted a stale *)
(* volume and listed an in-use volume, which it left alone.                *)
C11_Witness ==
    /\ pc = "done" /\ ~NOTIFY_ONLY /\ ~DRY_RUN
    /\ handler # "s3_bucket"
    /\ api_calls # <<>>
    /\ \E vol \in VolumesSeen :
          vol.State = "in-use" /\ CallsOn(vol.VolumeId) = {}
    /\ \A r \in Range(Flagged) : Cardinality(CallsOn(r)) = 1
=============================================================================
